---- MODULE Spec2Model ----
(***************************************************************************)
(* Smart Tab Manager: the background core (tab registry `tabData`, its     *)
(* durable snapshot in chrome.storage.local, the enrichment engine         *)
(* analyzeTab, the reconciler loadSavedData, the bulk analysis loops and   *)
(* the tab event listeners) and the popup actions that touch the durable   *)
(* snapshot.                                                               *)
(*                                                                         *)
(* Strings that the code inspects by prefix or substring (URLs, bodyText)  *)
(* are sequences of tokens; all other strings are atomic.  JavaScript's    *)
(* `undefined` URL is the one-token sequence Undefined.  An absent         *)
(* `tabData` key of chrome.storage.local and an empty object under that    *)
(* key are read alike by every reader (`result.tabData || {}`,             *)
(* `Object.keys(...).length > 0`), so the durable snapshot is one function *)
(* whose empty value stands for both.                                      *)
(***************************************************************************)
EXTENDS Integers, Sequences, FiniteSets, TLC

\* ------------------------------------------------------------------ bounds
MaxTabs == 2
MaxEvents == 2
MaxFaults == 1
MaxTasks == 3
MaxLive == 2
MaxLen == 2

\* ------------------------------------------------------- program constants
BATCH_SIZE == 5

TabIds == 1..MaxTabs

\* ------------------------------------------------------------------- URLs
Undefined == <<"<undefined>">>
UrlGithub == <<"https:", "//", "github.com", "/foo">>
UrlChrome == <<"chrome:", "//", "settings">>

\* String.prototype.startsWith on token sequences.
StartsWith(s, p) ==
    /\ Len(p) <= Len(s)
    /\ \A i \in 1..Len(p) : s[i] = p[i]

\* String.prototype.includes on token sequences.
Includes(s, k) ==
    \E i \in 0..(Len(s) - Len(k)) : \A j \in 1..Len(k) : s[i + j] = k[j]

\* `!url`: undefined or the empty string.
Falsy(url) == url = Undefined \/ url = <<>>

\* The pages a tab can show: what chrome.tabs reports (url, title) and what
\* the injected script reads as document.title (doc).
PageGithub == [url |-> UrlGithub, title |-> "foo", doc |-> "foo"]
PageChrome == [url |-> UrlChrome, title |-> "Settings", doc |-> "Settings"]
PageNoUrl == [url |-> Undefined, title |-> "", doc |-> ""]
NoPage == [url |-> Undefined, title |-> "<none>", doc |-> "<none>"]

Pages == {PageGithub, PageChrome, PageNoUrl}

\* A document without a <title>: the browser shows the address as the tab's
\* title and document.title is empty.
PagePlain ==
    [url |-> <<"https:", "//", "example.org">>, title |-> "example.org", doc |-> ""]
\* A page that never answers an injected script (its renderer hangs):
\* chrome.scripting.executeScript on it stays pending.
Never == "<never>"
PageHung ==
    [url |-> <<"https:", "//", "github.com", "/slow">>, title |-> "slow", doc |-> Never]
\* A page whose address holds keywords of two rules.
PageMail ==
    [url |-> <<"https:", "//", "zoho.com", "/mail">>, title |-> "Inbox", doc |-> "Inbox"]

\* ------------------------------------------------------------- classifier
Labels ==
    {"Development", "Documents", "Email", "Entertainment", "Reading",
     "Social Media", "LLM Chatbots"}

rules ==
    << [category |-> "Development",
        keywords |-> {<<"github.com">>, <<"microsoft.com">>}],
       [category |-> "Documents",
        keywords |-> {<<"docs.google.com">>, <<"zoho.com">>}],
       [category |-> "Email",
        keywords |-> {<<"mail.google.com">>, <<"zoho.com", "/mail">>}],
       [category |-> "Entertainment",
        keywords |-> {<<"youtube.com">>, <<"snapchat.com">>}],
       [category |-> "Reading",
        keywords |-> {<<"medium.com">>, <<"reddit.com", "/r/news">>}],
       [category |-> "Social Media",
        keywords |-> {<<"reddit.com">>, <<"snapchat.com">>}],
       [category |-> "LLM Chatbots",
        keywords |-> {<<"claude.ai">>, <<"copilot.", "microsoft.com">>}] >>

\* getCategory throws a TypeError on `url.includes` when url is undefined.
getCategoryThrows(url) == url = Undefined

RECURSIVE FirstMatch(_, _)
FirstMatch(url, i) ==
    IF i > Len(rules) THEN "Uncategorized"
    ELSE IF \E k \in rules[i].keywords : Includes(url, k)
         THEN rules[i].category
         ELSE FirstMatch(url, i + 1)

\* getCategory with its loop running from the last rule to the first.
getCategoryLast(url) ==
    LET hits == {i \in 1..Len(rules) : \E k \in rules[i].keywords : Includes(url, k)}
    IN  IF hits = {} THEN "Uncategorized"
        ELSE rules[CHOOSE i \in hits : \A j \in hits : j <= i].category

getCategory(url) == FirstMatch(url, 1)

\* ---------------------------------------------------------------- records
Absent == "<absent>"
NullContent == [title |-> "<null>", metaDescription |-> "", bodyText |-> <<>>]
EmptyMap == [x \in {} |-> NullContent]

Content(t, m, b) == [title |-> t, metaDescription |-> m, bodyText |-> b]

\* `a || b` on atomic strings.
OrElse(a, b) == IF a = "" THEN b ELSE a

Record(id, url, title, category, summary, time, content, topics, importance) ==
    [id |-> id, url |-> url, title |-> title, category |-> category,
     summary |-> summary, lastAccessed |-> time, content |-> content,
     topics |-> topics, importance |-> importance]

\* The record loadSavedData creates for a live tab that has none.
Placeholder(id, tab, time) ==
    Record(id, tab.url, tab.title, getCategory(tab.url),
           OrElse(tab.title, "No summary available"), time,
           Content(tab.title, "", <<>>), Absent, Absent)

\* analyzeTab's record with a category that follows the fetched content: the
\* classifier's label when the page was read, "Uncategorized" otherwise.
EnrichedByContent(id, url, title, content, time) ==
    Record(id, url, title,
           IF content.bodyText = <<"body">> THEN getCategory(url) ELSE "Uncategorized",
           OrElse(content.title, "No summary available"), time, content,
           Absent, Absent)

\* The record analyzeTab (keyword variant) commits.
Enriched(id, url, title, content, time) ==
    Record(id, url, title, getCategory(url),
           OrElse(content.title, "No summary available"), time, content,
           Absent, Absent)

Put(f, k, v) == [x \in DOMAIN f \cup {k} |-> IF x = k THEN v ELSE f[x]]
Drop(f, S) == [x \in DOMAIN f \ S |-> f[x]]

\* The skip test at the head of analyzeTab.
Skipped(url) ==
    \/ Falsy(url)
    \/ StartsWith(url, <<"chrome:">>)
    \/ StartsWith(url, <<"chrome-extension:">>)
    \/ StartsWith(url, <<"about:">>)

\* The special-URL test of getPageContent.
Special(url) ==
    \/ Falsy(url)
    \/ StartsWith(url, <<"chrome:", "//">>)
    \/ StartsWith(url, <<"chrome-extension:", "//">>)
    \/ StartsWith(url, <<"edge:", "//">>)
    \/ StartsWith(url, <<"about:">>)
    \/ StartsWith(url, <<"chrome-search:", "//">>)
    \/ StartsWith(url, <<"view-source:">>)
    \/ StartsWith(url, <<"file:">>)

\* ------------------------------------------------------------------ state
VARIABLES
    open,       \* live tabs of the browser: tab id -> page
    gone,       \* ids of tabs closed so far (the browser never reuses an id)
    tabData,    \* the registry: tab id -> record
    storage,    \* the value of the 'tabData' key of chrome.storage.local
    ioq,        \* chrome.storage requests in flight, in issue order
    tasks,      \* the async invocations started so far
    now,        \* Date.getTime(); time passes between external events
    events,     \* external events delivered so far
    faults,     \* rejected browser calls so far
    variant,    \* which analyzeTab is installed: "keyword" or "llm"
    closing,    \* ids passed to chrome.tabs.remove, still open
    popup       \* the popup: where analyzeTabs stands, and its own `tabData`

vars ==
    <<open, gone, tabData, storage, ioq, tasks, now, events, faults, variant,
      closing, popup>>

\* The tab object {id, url, title} the browser hands to a listener or a query.
TabOf(id) == [id |-> id, url |-> open[id].url, title |-> open[id].title]

RECURSIVE IdsSeq(_)
IdsSeq(S) ==
    IF S = {} THEN <<>>
    ELSE LET m == CHOOSE x \in S : \A y \in S : x <= y
         IN  <<m>> \o IdsSeq(S \ {m})

\* chrome.tabs.query({}): the live tabs, in id order.
QueryTabs == [k \in 1..Cardinality(DOMAIN open) |-> TabOf(IdsSeq(DOMAIN open)[k])]

Task(kind, pc, id, url, title) ==
    [kind |-> kind, pc |-> pc, id |-> id, url |-> url, title |-> title,
     gtab |-> NoPage, content |-> NullContent, urlChanged |-> FALSE, parent |-> 0, list |-> <<>>,
     i |-> 0, added |-> FALSE, failed |-> FALSE, caught |-> FALSE, sent |-> <<>>,
     ret |-> Absent]

\* A finished invocation keeps what it reported (whether it threw, whether the
\* catch of analyzeTab ran, the tabs a bulk operation listed, the messages it
\* handed to the popup); its other locals are dropped.
Finish(t, failed) ==
    [Task(t.kind, "done", t.id, Undefined, "") EXCEPT
        !.parent = t.parent, !.failed = failed, !.caught = t.caught,
        !.list = t.list, !.sent = t.sent, !.ret = t.ret]

Note(action, status) == [action |-> action, status |-> status]

\* A send that is repeated once when it was not delivered.
SendRetrying(t, action, status) ==
    [t EXCEPT !.sent = Append(Append(@, Note(action, status)), Note(action, status))]

\* sendMessageToPopupIfOpen(message): the message is handed over once; with
\* no popup context nothing is sent, and a send that rejects or throws is
\* caught and dropped, so the caller goes on either way.
Send(t, action, status) == [t EXCEPT !.sent = Append(@, Note(action, status))]

\* The analyzeAllTabs handler after its synchronous part: the acknowledgment
\* is sent (`ret`) and chrome.tabs.query({}) is awaited.
Ack == [success |-> TRUE, status |-> "started"]

\* The handler with the acknowledgment left to the end of the work: no
\* response yet while chrome.tabs.query is awaited.
BulkRequestUnacked ==
    [Task("analyzeAllTabs", "bulk_query", 0, Undefined, "") EXCEPT
        !.ret = [pending |-> TRUE]]

BulkRequest ==
    [Task("analyzeAllTabs", "bulk_query", 0, Undefined, "") EXCEPT !.ret = Ack]

GetPcs == {"ls_get"}
SetPcs == {"an_set", "ls_set", "touch_set", "rm_set", "bulk_set"}

Req(op, task, snap, by) == [op |-> op, task |-> task, snap |-> snap, by |-> by]

\* The chrome.storage call, if any, on which the new state n of task self waits.
Issue(q, self, n, td) ==
    IF n.pc \in GetPcs THEN Append(q, Req("get", self, EmptyMap, "core"))
    ELSE IF n.pc \in SetPcs THEN Append(q, Req("set", self, td, "core"))
    ELSE q

AtHead(self) == ioq # <<>> /\ Head(ioq).task = self

\* ---------------------------------------------------------- continuations
\* What the caller of analyzeTab does when analyzeTab settles.
AfterAnalyze(t, rejected) ==
    IF rejected THEN Finish(t, TRUE)
    ELSE IF \/ t.kind \in {"onCreated", "onActivated"}
            \/ (t.kind = "onUpdated" /\ t.urlChanged)
         THEN [t EXCEPT !.pc = "ls_get"]
         ELSE Finish(t, FALSE)

\* analyzeTab without its try/catch: every exception rejects the call.
ThrownUncaught(t) == AfterAnalyze(t, TRUE)

\* An exception inside analyzeTab: the keyword analyzeTab catches and logs it
\* and returns normally; the llm analyzeTab has no catch and rejects.
Thrown(t) ==
    AfterAnalyze([t EXCEPT !.caught = variant = "keyword"], variant = "llm")

\* analyzeTab without its skip test: every tab goes on to getPageContent.
StartAnalyzeUnfiltered(t) == [t EXCEPT !.pc = "an_get"]

\* analyzeTab up to its first await.
StartAnalyze(t) ==
    IF Skipped(t.url) THEN AfterAnalyze(t, FALSE) ELSE [t EXCEPT !.pc = "an_get"]

\* refreshAllTabData, started and not awaited by loadSavedData.
RefreshTask == Task("refresh", "bulk_query", 0, Undefined, "")

\* A JavaScript boolean as a returned value.
Bool(b) == [boolean |-> b]

\* What the caller of loadSavedData does when it returns `ok`; a finished
\* invocation records what its loadSavedData returned.
AfterLoad(t, ok) ==
    IF t.kind = "getTabData"
    THEN [Finish(Send(t, "tabDataUpdated", Absent), ~ok) EXCEPT !.ret = Bool(ok)]
    ELSE IF t.kind = "init" /\ ~ok THEN [t EXCEPT !.pc = "bulk_query"]
    ELSE [Finish(t, ~ok) EXCEPT !.ret = Bool(ok)]

\* The invocations started so far are bounded.
Room(n) == Len(tasks) + n <= MaxTasks

Step(self, n, q, td) ==
    /\ tasks' = [tasks EXCEPT ![self] = n]
    /\ ioq' = Issue(q, self, n, td)

CanFail == faults < MaxFaults

\* --------------------------------------------------------------- analyzeTab
\* analyzeThroughLLM's answers: response.json() with the fields the code
\* reads; a field the response lacks reads as undefined.
LLMAnswers ==
    { [category |-> "Development", summary |-> "A page.", topics |-> "some",
       importance |-> "high"],
      [category |-> Absent, summary |-> Absent, topics |-> "[]",
       importance |-> Absent] }

\* analyzeTab after getPageContent has returned `content`.
\* keyword: `content.title` throws on a null content, the catch of analyzeTab
\*   swallows it; otherwise the record is committed and the flush awaited.
\* llm: analyzeThroughLLM throws on a null content inside its try and again
\*   inside its catch, so analyzeTab rejects; otherwise it awaits fetch.
Commit(self, t, content) ==
    IF t.kind = "getPageContent"        \* called on its own: it returns
    THEN /\ Step(self, [Finish(t, FALSE) EXCEPT !.ret = content], ioq, tabData)
         /\ UNCHANGED tabData
    ELSE IF content = NullContent
    THEN /\ Step(self, Thrown(t), ioq, tabData)
         /\ UNCHANGED tabData
    ELSE IF variant = "llm"
    THEN /\ Step(self, [t EXCEPT !.pc = "llm_fetch", !.gtab = NoPage,
                                  !.content = content], ioq, tabData)
         /\ UNCHANGED tabData
    ELSE /\ tabData' = Put(tabData, t.id,
                           Enriched(t.id, t.url, t.title, content, now))
         /\ Step(self, [t EXCEPT !.pc = "an_set", !.gtab = NoPage], ioq, tabData')

\* getPageContent: chrome.tabs.get(tabId) settles.
AnalyzeGet(self) ==
    LET t == tasks[self] IN
    /\ t.pc = "an_get"
    /\ IF t.id \in DOMAIN open
       THEN IF Special(open[t.id].url)
            THEN Commit(self, t, Content(open[t.id].title, "", <<>>))
            ELSE /\ Step(self, [t EXCEPT !.pc = "an_script", !.gtab = open[t.id]],
                         ioq, tabData)
                 /\ UNCHANGED tabData
       ELSE /\ Step(self, [t EXCEPT !.pc = "an_get2"], ioq, tabData)
            /\ UNCHANGED tabData
    /\ UNCHANGED <<open, gone, storage, now, events, faults, variant, popup, closing>>

\* getPageContent: the last-resort chrome.tabs.get(tabId) settles.
AnalyzeGet2(self) ==
    LET t == tasks[self] IN
    /\ t.pc = "an_get2"
    /\ IF t.id \in DOMAIN open
       THEN Commit(self, t, Content(open[t.id].title, "",
                                    <<"[Tab information unavailable]">>))
       ELSE Commit(self, t, Content("Unknown Tab", "",
                                    <<"[Tab information unavailable]">>))
    /\ UNCHANGED <<open, gone, storage, now, events, faults, variant, popup, closing>>

\* getPageContent: chrome.scripting.executeScript settles; it is awaited
\* without a timer, so nothing happens while the page does not answer.
AnalyzeScript(self) ==
    LET t == tasks[self] IN
    /\ t.pc = "an_script"
    /\ ~(t.id \in DOMAIN open /\ open[t.id].doc = Never)
    /\ \/ /\ t.id \in DOMAIN open        \* the script ran and returned the triple
          /\ Commit(self, t, Content(open[t.id].doc, "", <<"body">>))
       \/ \* it threw, or returned no result: the fallback triple
          Commit(self, t, Content(t.gtab.title, "",
                                  <<"[Content not accessible] - ">> \o t.gtab.url))
       \/ /\ t.id \in DOMAIN open        \* result[0].result is null
          /\ Commit(self, t, NullContent)
    /\ UNCHANGED <<open, gone, storage, now, events, faults, variant, popup, closing>>

\* analyzeTab (keyword): `await chrome.storage.local.set({ tabData })` settles.
AnalyzeSet(self) ==
    LET t == tasks[self] IN
    /\ t.pc = "an_set"
    /\ AtHead(self)
    /\ \/ /\ storage' = Head(ioq).snap
          /\ Step(self, AfterAnalyze(Send(t, "tabAnalyzed", Absent), FALSE),
                  Tail(ioq), tabData)
          /\ UNCHANGED faults
       \/ /\ CanFail
          /\ faults' = faults + 1
          /\ Step(self, Thrown(t), Tail(ioq), tabData)
          /\ UNCHANGED storage
    /\ UNCHANGED <<open, gone, tabData, now, events, variant, popup, closing>>

\* analyzeTab (llm): analyzeThroughLLM's fetch settles; the record is stored,
\* the flush is issued and not awaited, the popup is notified.
LLMFetch(self) ==
    LET t == tasks[self] IN
    /\ t.pc = "llm_fetch"
    /\ \E a \in LLMAnswers \cup
                {[category |-> "Uncategorized",
                  summary |-> OrElse(t.content.title, "Unknown page"),
                  topics |-> "[]", importance |-> "medium"]} :
          /\ tabData' = Put(tabData, t.id,
                            Record(t.id, t.url, t.title, a.category, a.summary,
                                   now, t.content, a.topics, a.importance))
          /\ Step(self, AfterAnalyze(Send(t, "tabAnalyzed", Absent), FALSE),
                  Append(ioq, Req("set", 0, tabData', "core")), tabData')
    /\ UNCHANGED <<open, gone, storage, now, events, faults, variant, popup, closing>>

\* A chrome.storage request nobody awaits reaches the store.
IoLand ==
    /\ ioq # <<>>
    /\ Head(ioq).task = 0
    /\ storage' = IF Head(ioq).op = "set" THEN Head(ioq).snap ELSE EmptyMap
    /\ ioq' = Tail(ioq)
    /\ UNCHANGED <<open, gone, tabData, tasks, now, events, faults, variant, popup, closing>>

\* ------------------------------------------------------------ loadSavedData
Others == <<open, gone, now, events, variant, closing, popup>>

\* `await chrome.storage.local.get('tabData')` settles; the registry becomes
\* the snapshot read and chrome.tabs.query is awaited.
LoadGet(self) ==
    LET t == tasks[self] IN
    /\ t.pc = "ls_get"
    /\ AtHead(self)
    /\ \/ /\ tabData' = storage
          /\ Step(self, [t EXCEPT !.pc = "ls_query"], Tail(ioq), tabData')
          /\ UNCHANGED faults
       \/ /\ CanFail
          /\ faults' = faults + 1
          /\ tabData' = EmptyMap
          /\ Step(self, AfterLoad(t, FALSE), Tail(ioq), tabData')
    /\ UNCHANGED <<storage>>
    /\ UNCHANGED Others

\* The registry after the purge loop and the add loop over the live tabs.
Reconciled(td, time) ==
    [id \in DOMAIN open |->
        IF id \in DOMAIN td THEN td[id] ELSE Placeholder(id, TabOf(id), time)]

\* The add loop calls getCategory(tab.url) for every live tab without a record.
AddLoopThrows(td) == \E id \in DOMAIN open \ DOMAIN td : getCategoryThrows(open[id].url)

\* `await chrome.tabs.query({})` settles; stale records are purged, missing
\* tabs get placeholders, the flush is awaited.
LoadQuery(self) ==
    LET t == tasks[self] IN
    /\ t.pc = "ls_query"
    /\ \/ /\ IF AddLoopThrows(tabData)
             THEN /\ tabData' = EmptyMap
                  /\ Step(self, AfterLoad(t, FALSE), ioq, tabData')
             ELSE /\ tabData' = Reconciled(tabData, now)
                  /\ Step(self, [t EXCEPT !.pc = "ls_set",
                                          !.added = DOMAIN open \ DOMAIN tabData # {}],
                          ioq, tabData')
          /\ UNCHANGED faults
       \/ /\ CanFail
          /\ faults' = faults + 1
          /\ tabData' = EmptyMap
          /\ Step(self, AfterLoad(t, FALSE), ioq, tabData')
    /\ UNCHANGED <<storage>>
    /\ UNCHANGED Others

\* `await chrome.storage.local.set({ tabData })` settles; refreshAllTabData is
\* started when tabs were added.
LoadSet(self) ==
    LET t == tasks[self]
        n == AfterLoad([t EXCEPT !.added = FALSE], TRUE)
    IN
    /\ t.pc = "ls_set"
    /\ AtHead(self)
    /\ \/ /\ storage' = Head(ioq).snap
          /\ IF t.added
             THEN /\ Room(1)
                  /\ tasks' = Append([tasks EXCEPT ![self] = n], RefreshTask)
                  /\ ioq' = Issue(Tail(ioq), self, n, tabData)
             ELSE Step(self, n, Tail(ioq), tabData)
          /\ UNCHANGED <<tabData, faults>>
       \/ /\ CanFail
          /\ faults' = faults + 1
          /\ tabData' = EmptyMap
          /\ Step(self, AfterLoad([t EXCEPT !.added = FALSE], FALSE), Tail(ioq), tabData')
          /\ UNCHANGED storage
    /\ UNCHANGED Others

\* ------------------------------------------- refreshAllTabData, analyzeAllTabs
Min(a, b) == IF a < b THEN a ELSE b

\* analyzeTab(tab) for each tab of the batch, each up to its first await.
\* A call that returns at once (a skipped tab) leaves nothing to wait for.
Children(self, batch) ==
    LET calls == [k \in 1..Len(batch) |->
                    StartAnalyze([Task("child", "start", batch[k].id,
                                       batch[k].url, batch[k].title)
                                     EXCEPT !.parent = self])]
    IN  SelectSeq(calls, LAMBDA c : c.pc # "done")

\* The loop without batches: analyzeTab is called for every remaining tab.
StartBatchAll(self, t, list, i) ==
    LET cs == Children(self, SubSeq(list, i, Len(list)))
    IN  /\ Room(Len(cs))
        /\ tasks' = [tasks EXCEPT ![self] =
                        [t EXCEPT !.pc = "bulk_wait", !.list = list, !.i = i]] \o cs
        /\ UNCHANGED ioq

StartBatch(self, t, list, i) ==
    LET cs == Children(self, SubSeq(list, i, Min(i + BATCH_SIZE - 1, Len(list))))
    IN  /\ Room(Len(cs))
        /\ tasks' = [tasks EXCEPT ![self] =
                        [t EXCEPT !.pc = "bulk_wait", !.list = list, !.i = i]] \o cs
        /\ UNCHANGED ioq

\* The bulk operation ends in its catch: refreshAllTabData logs and returns
\* false, the analyzeAllTabs handler notifies the popup of the error.
BulkAbort(t) ==
    IF t.kind = "analyzeAllTabs"
    THEN Finish(Send(t, "tabDataUpdated", "error"), FALSE)
    ELSE Finish(t, FALSE)

\* `chrome.tabs.query({})` of a bulk operation settles.
BulkQuery(self) ==
    LET t == tasks[self] IN
    /\ t.pc = "bulk_query"
    /\ \/ /\ StartBatch(self, t, QueryTabs, 1)
          /\ UNCHANGED faults
       \/ /\ CanFail
          /\ faults' = faults + 1
          /\ Step(self, BulkAbort(t), ioq, tabData)
    /\ UNCHANGED <<tabData, storage>>
    /\ UNCHANGED Others

ChildrenOf(self) == {c \in 1..Len(tasks) : tasks[c].parent = self}

\* `await Promise.all(batch.map(...))` settles.
BulkJoin(self) ==
    LET t == tasks[self] IN
    /\ t.pc = "bulk_wait"
    /\ IF \E c \in ChildrenOf(self) : tasks[c].failed
       THEN Step(self, BulkAbort(t), ioq, tabData)
       ELSE /\ \A c \in ChildrenOf(self) : tasks[c].pc = "done"
            /\ IF t.i + BATCH_SIZE <= Len(t.list)
               THEN Step(self, [t EXCEPT !.pc = "bulk_pause"], ioq, tabData)
               ELSE Step(self, [t EXCEPT !.pc = "bulk_set"], ioq, tabData)
    /\ UNCHANGED <<tabData, storage, faults>>
    /\ UNCHANGED Others

\* The 100 ms pause between two batches ends.
BulkPause(self) ==
    LET t == tasks[self] IN
    /\ t.pc = "bulk_pause"
    /\ StartBatch(self, t, t.list, t.i + BATCH_SIZE)
    /\ UNCHANGED <<tabData, storage, faults>>
    /\ UNCHANGED Others

\* The final `await chrome.storage.local.set({ tabData })` settles.
BulkSet(self) ==
    LET t == tasks[self] IN
    /\ t.pc = "bulk_set"
    /\ AtHead(self)
    /\ \/ /\ storage' = Head(ioq).snap
          /\ Step(self, Finish(Send(t, "tabDataUpdated", "complete"), FALSE),
                  Tail(ioq), tabData)
          /\ UNCHANGED faults
       \/ /\ CanFail
          /\ faults' = faults + 1
          /\ Step(self, BulkAbort(t), Tail(ioq), tabData)
          /\ UNCHANGED storage
    /\ UNCHANGED tabData
    /\ UNCHANGED Others

\* ------------------------------------------------------------ tab listeners
Spawn(n, td) ==
    /\ Room(1)
    /\ tasks' = Append(tasks, n)
    /\ ioq' = Issue(ioq, Len(tasks) + 1, n, td)

MayHappen == events < MaxEvents

\* An external event is delivered, later than the one before.
Happens ==
    /\ events' = events + 1
    /\ now' = now + 1

\* A tab opens; chrome.tabs.onCreated runs analyzeTab(tab), then loadSavedData.
EvCreated(id, page) ==
    /\ MayHappen
    /\ id \notin DOMAIN open \cup gone
    /\ open' = Put(open, id, page)
    /\ Happens
    /\ Spawn(StartAnalyze(Task("onCreated", "start", id, page.url, page.title)), tabData)
    /\ UNCHANGED <<gone, tabData, storage, faults, variant, popup, closing>>

\* chrome.tabs.onUpdated with changeInfo.status = 'complete'.
EvUpdated(id, urlChanged) ==
    /\ MayHappen
    /\ id \in DOMAIN open
    /\ Happens
    /\ Spawn(StartAnalyze([Task("onUpdated", "start", id, open[id].url, open[id].title)
                              EXCEPT !.urlChanged = urlChanged]), tabData)
    /\ UNCHANGED <<open, gone, tabData, storage, faults, variant, popup, closing>>

\* chrome.tabs.onActivated: touch lastAccessed and flush when a record exists.
EvActivated(id) ==
    /\ MayHappen
    /\ id \in DOMAIN open
    /\ Happens
    /\ IF id \in DOMAIN tabData
       THEN /\ tabData' = [tabData EXCEPT ![id].lastAccessed = now']
            /\ Spawn(Task("onActivated", "touch_set", id, Undefined, ""), tabData')
       ELSE /\ Spawn(Task("onActivated", "act_get", id, Undefined, ""), tabData)
            /\ UNCHANGED tabData
    /\ UNCHANGED <<open, gone, storage, faults, variant, popup, closing>>

\* onActivated: the flush of the touch settles; chrome.tabs.get is awaited.
TouchSet(self) ==
    LET t == tasks[self] IN
    /\ t.pc = "touch_set"
    /\ AtHead(self)
    /\ \/ /\ storage' = Head(ioq).snap
          /\ Step(self, [t EXCEPT !.pc = "act_get"], Tail(ioq), tabData)
          /\ UNCHANGED faults
       \/ /\ CanFail
          /\ faults' = faults + 1
          /\ Step(self, Finish(t, TRUE), Tail(ioq), tabData)
          /\ UNCHANGED storage
    /\ UNCHANGED tabData
    /\ UNCHANGED Others

\* onActivated: chrome.tabs.get settles; analyzeTab(tab), then loadSavedData.
ActGet(self) ==
    LET t == tasks[self] IN
    /\ t.pc = "act_get"
    /\ IF t.id \in DOMAIN open
       THEN Step(self, StartAnalyze([t EXCEPT !.url = open[t.id].url,
                                              !.title = open[t.id].title]),
                 ioq, tabData)
       ELSE Step(self, Finish(t, TRUE), ioq, tabData)
    /\ UNCHANGED <<tabData, storage, faults>>
    /\ UNCHANGED Others

\* A tab closes (by the user, or because the core asked for it);
\* chrome.tabs.onRemoved deletes its record and flushes.
EvRemoved(id) ==
    /\ id \in DOMAIN open
    /\ id \in closing \/ MayHappen
    /\ IF id \in closing THEN UNCHANGED <<events, now>> ELSE Happens
    /\ open' = Drop(open, {id})
    /\ gone' = gone \cup {id}
    /\ closing' = closing \ {id}
    /\ IF id \in DOMAIN tabData
       THEN /\ tabData' = Drop(tabData, {id})
            /\ Spawn(Task("onRemoved", "rm_set", id, Undefined, ""), tabData')
       ELSE UNCHANGED <<tabData, tasks, ioq>>
    /\ UNCHANGED <<storage, faults, variant, popup>>

\* onRemoved: the flush settles.
RmSet(self) ==
    LET t == tasks[self] IN
    /\ t.pc = "rm_set"
    /\ AtHead(self)
    /\ \/ /\ storage' = Head(ioq).snap
          /\ Step(self, Finish(t, FALSE), Tail(ioq), tabData)
          /\ UNCHANGED faults
       \/ /\ CanFail
          /\ faults' = faults + 1
          /\ Step(self, Finish(t, TRUE), Tail(ioq), tabData)
          /\ UNCHANGED storage
    /\ UNCHANGED tabData
    /\ UNCHANGED Others

\* ------------------------------------------------------ initializeExtension
InitTask == Task("init", "init_delay", 0, Undefined, "")

\* chrome.runtime.onInstalled / onStartup: initializeExtension starts.
EvStartup ==
    /\ MayHappen
    /\ \A k \in 1..Len(tasks) : tasks[k].kind # "init"
    /\ Happens
    /\ Spawn(InitTask, tabData)
    /\ UNCHANGED <<open, gone, tabData, storage, faults, variant, popup, closing>>

\* The 500 ms start delay ends; loadSavedData is awaited.
InitDelay(self) ==
    LET t == tasks[self] IN
    /\ t.pc = "init_delay"
    /\ Step(self, [t EXCEPT !.pc = "ls_get"], ioq, tabData)
    /\ UNCHANGED <<tabData, storage, faults>>
    /\ UNCHANGED Others

\* The 5-minute interval installed by initializeExtension fires.
EvPeriodic ==
    /\ MayHappen
    /\ \E k \in 1..Len(tasks) : tasks[k].kind = "init" /\ tasks[k].pc = "done"
    /\ Happens
    /\ Spawn(Task("periodic", "ls_get", 0, Undefined, ""), tabData)
    /\ UNCHANGED <<open, gone, tabData, storage, faults, variant, popup, closing>>

\* ----------------------------------------------- chrome.runtime.onMessage
\* getTabData: the response is sent at once; loadSavedData runs, then the
\* popup is notified.
EvGetTabData ==
    /\ MayHappen
    /\ Happens
    /\ Spawn(Task("getTabData", "ls_get", 0, Undefined, ""), tabData)
    /\ UNCHANGED <<open, gone, tabData, storage, faults, variant, popup, closing>>

\* analyzeSingleTab: chrome.tabs.get(tabId) is awaited.
EvAnalyzeSingle(id) ==
    /\ MayHappen
    /\ Happens
    /\ Spawn(Task("analyzeSingleTab", "single_get", id, Undefined, ""), tabData)
    /\ UNCHANGED <<open, gone, tabData, storage, faults, variant, popup, closing>>

\* analyzeSingleTab: chrome.tabs.get settles; analyzeTab(tab) is started and
\* the response sent (`ret`); a rejected lookup is answered with its message.
SingleGet(self) ==
    LET t == tasks[self] IN
    /\ t.pc = "single_get"
    /\ IF t.id \in DOMAIN open
       THEN Step(self, StartAnalyze([t EXCEPT !.url = open[t.id].url,
                                              !.title = open[t.id].title,
                                              !.ret = [success |-> TRUE]]),
                 ioq, tabData)
       ELSE Step(self, Finish([t EXCEPT !.ret = [success |-> FALSE,
                                                 error |-> "No tab with id"]], TRUE),
                 ioq, tabData)
    /\ UNCHANGED <<tabData, storage, faults>>
    /\ UNCHANGED Others

\* analyzeAllTabs: the acknowledgment is sent; chrome.tabs.query is awaited.
EvAnalyzeAll ==
    /\ MayHappen
    /\ Happens
    /\ Spawn(BulkRequest, tabData)
    /\ UNCHANGED <<open, gone, tabData, storage, faults, variant, popup, closing>>

\* The closeTabs invocation that has responded: `list` is message.tabIds,
\* `ret` the response.
Closed(S) ==
    [Finish(Task("closeTabs", "start", 0, Undefined, ""), FALSE) EXCEPT
        !.list = IdsSeq(S), !.ret = [success |-> TRUE]]

\* closeTabs whose loop stops after the first id of the list.
EvCloseTabsFirstOnly(S) ==
    LET first == {IdsSeq(S)[1]} IN
    /\ MayHappen
    /\ Happens
    /\ closing' = closing \cup (first \cap DOMAIN open)
    /\ tabData' = Drop(tabData, first)
    /\ Room(1)
    /\ tasks' = Append(tasks, Closed(S))
    /\ ioq' = Append(ioq, Req("set", 0, tabData', "core"))
    /\ UNCHANGED <<open, gone, storage, faults, variant, popup>>

\* The closeTabs branch of the core's listener.
CloseTabs(S) ==
    /\ closing' = closing \cup (S \cap DOMAIN open)
    /\ tabData' = Drop(tabData, S)
    /\ Room(1)
    /\ tasks' = Append(tasks, Closed(S))
    /\ ioq' = Append(ioq, Req("set", 0, tabData', "core"))

\* closeTabs: every listed tab is asked to close and its record deleted; the
\* flush is issued (not awaited) and the response sent.
EvCloseTabs(S) ==
    /\ MayHappen
    /\ Happens
    /\ CloseTabs(S)
    /\ UNCHANGED <<open, gone, storage, faults, variant, popup>>

\* -------------------------------------------------------------------- popup
\* popup.js keeps its own `tabData`; `pc` is where its analyzeTabs stands and
\* `resp` what its last request to the core resolved with (Pending: nothing).
Pending == [pending |-> TRUE]

\* `late`: the messages whose timer fired before the callback ran; `picked`:
\* the ids closeInactiveTabs asks the user about; `isInitialized`: the flag of
\* initPopup; `inInit`: initPopup has been entered and has not returned;
\* `listeners`: how often initPopup has registered the handlers of the Analyze
\* button, the Close Inactive button and the search input.
PopupIdle ==
    [pc |-> "idle", data |-> EmptyMap, resp |-> Pending, late |-> {}, picked |-> {},
     isInitialized |-> FALSE, inInit |-> FALSE, listeners |-> 0]

\* The record the popup builds for a tab when it has nothing better to show.
Basic(tab, time) ==
    [id |-> tab.id, url |-> tab.url, title |-> tab.title,
     category |-> "Uncategorized",
     summary |-> OrElse(tab.title, "No summary available"), lastAccessed |-> time]

\* analyzeTabs starts: the popup empties its `tabData` and awaits
\* chrome.storage.local.remove('tabData').
Cleared(p) == [p EXCEPT !.pc = "clearing", !.data = EmptyMap]

ClearAndRemove(q) ==
    /\ popup' = Cleared(popup)
    /\ ioq' = Append(q, Req("remove", 0, EmptyMap, "popup"))

\* getTabDataWithTimeout when the stored key is empty: the getTabData message
\* reaches the core, which answers with its registry and starts loadSavedData.
AskCore ==
    /\ Room(1)
    /\ tasks' = Append(tasks, Task("getTabData", "ls_get", 0, Undefined, ""))

\* The popup opens (initPopup) or refreshes (refreshDataFromBackground): a
\* stored snapshot that is not empty is shown; otherwise the core is asked,
\* and when its answer is empty too analyzeTabs runs.
PopupLoad ==
    /\ MayHappen
    /\ Happens
    /\ popup.pc = "idle"
    /\ IF storage # EmptyMap
       THEN /\ popup' = [popup EXCEPT !.data = storage]
            /\ UNCHANGED <<tasks, ioq>>
       ELSE /\ AskCore
            /\ IF tabData # EmptyMap
               THEN /\ popup' = [popup EXCEPT !.data = tabData]
                    /\ ioq' = Append(ioq, Req("get", Len(tasks) + 1, EmptyMap, "core"))
               ELSE ClearAndRemove(Append(ioq, Req("get", Len(tasks) + 1, EmptyMap, "core")))
    /\ UNCHANGED <<open, gone, tabData, storage, faults, variant, closing>>

\* The close button of a listed tab: chrome.tabs.remove(tabId), the entry is
\* deleted from the popup's `tabData`, which is then written to the store.
PopupCloseTab(id) ==
    /\ MayHappen
    /\ Happens
    /\ id \in DOMAIN popup.data
    /\ closing' = closing \cup ({id} \cap DOMAIN open)
    /\ popup' = [popup EXCEPT !.data = Drop(@, {id})]
    /\ ioq' = Append(ioq, Req("set", 0, popup'.data, "popup"))
    /\ UNCHANGED <<open, gone, tabData, storage, tasks, faults, variant>>

\* The Analyze button: analyzeTabs.
PopupAnalyze ==
    /\ MayHappen
    /\ Happens
    /\ popup.pc = "idle"
    /\ ClearAndRemove(ioq)
    /\ UNCHANGED <<open, gone, tabData, storage, tasks, faults, variant, closing>>

\* analyzeTabs: the remove has settled; chrome.tabs.query, then the
\* analyzeAllTabs message, which the core acknowledges at once.
PopupAnalyzeSend ==
    /\ popup.pc = "clearing"
    /\ \A j \in 1..Len(ioq) : ioq[j].op # "remove"
    /\ IF DOMAIN open = {}
       THEN /\ popup' = [popup EXCEPT !.pc = "idle"]
            /\ UNCHANGED <<tasks, ioq>>
       ELSE /\ popup' = [popup EXCEPT !.pc = "fresh"]
            /\ Spawn(BulkRequest, tabData)
    /\ UNCHANGED <<open, gone, tabData, storage, now, events, faults, variant, closing>>

\* analyzeTabs: the fresh load after the acknowledgment. A stored snapshot
\* that is not empty is shown; otherwise the core is asked, and when its
\* answer is empty the popup shows records it builds from the live tabs.
PopupFresh ==
    /\ popup.pc = "fresh"
    /\ IF storage # EmptyMap
       THEN /\ popup' = [popup EXCEPT !.pc = "idle", !.data = storage]
            /\ UNCHANGED <<tasks, ioq>>
       ELSE /\ AskCore
            /\ ioq' = Append(ioq, Req("get", Len(tasks) + 1, EmptyMap, "core"))
            /\ popup' = [popup EXCEPT
                            !.pc = "idle",
                            !.data = IF tabData # EmptyMap THEN tabData
                                     ELSE [id \in DOMAIN open |-> Basic(TabOf(id), now)]]
    /\ UNCHANGED <<open, gone, tabData, storage, now, events, faults, variant, closing>>

\* ------------------------------------------------------------ specification
\* What an earlier run of the core left under the 'tabData' key: records for
\* some tab ids, written at time 0; a tab without a URL never got one.
PriorPage(id) ==
    IF id \in DOMAIN open /\ open[id].url # Undefined THEN open[id] ELSE PageGithub

PriorRecord(id) ==
    Placeholder(id, [id |-> id, url |-> PriorPage(id).url,
                     title |-> PriorPage(id).title], 0)

PriorStorages ==
    { [id \in S |-> PriorRecord(id)] :
        S \in SUBSET {id \in TabIds : id \notin DOMAIN open \/ open[id].url # Undefined} }

\* The process has just started in a browser with at least one tab: the
\* registry is empty and the durable snapshot is what an earlier run left.
InitCommon ==
    /\ open \in UNION {[S -> Pages] : S \in SUBSET TabIds \ {{}}}
    /\ gone = {}
    /\ tabData = EmptyMap
    /\ storage \in PriorStorages
    /\ ioq = <<>>
    /\ tasks = <<>>
    /\ now = 1
    /\ events = 0
    /\ faults = 0
    /\ closing = {}
    /\ popup = PopupIdle

Init == InitCommon /\ variant = "keyword"

Running == 1..Len(tasks)

\* The steps of the handlers that both variants of analyzeTab share.
Handlers ==
    \/ \E self \in Running : AnalyzeGet(self)
    \/ \E self \in Running : AnalyzeGet2(self)
    \/ \E self \in Running : AnalyzeScript(self)
    \/ \E self \in Running : LoadGet(self)
    \/ \E self \in Running : LoadQuery(self)
    \/ \E self \in Running : LoadSet(self)
    \/ \E self \in Running : BulkQuery(self)
    \/ \E self \in Running : BulkJoin(self)
    \/ \E self \in Running : BulkSet(self)
    \/ \E self \in Running : TouchSet(self)
    \/ \E self \in Running : ActGet(self)
    \/ \E self \in Running : RmSet(self)
    \/ \E self \in Running : InitDelay(self)
    \/ \E self \in Running : SingleGet(self)

Environment ==
    \/ \E id \in TabIds, page \in Pages : EvCreated(id, page)
    \/ \E id \in TabIds, u \in BOOLEAN : EvUpdated(id, u)
    \/ \E id \in TabIds : EvActivated(id)
    \/ \E id \in TabIds : EvRemoved(id)
    \/ \E id \in TabIds : EvAnalyzeSingle(id)
    \/ \E S \in SUBSET TabIds \ {{}} : EvCloseTabs(S)
    \/ EvStartup
    \/ EvPeriodic
    \/ EvGetTabData
    \/ EvAnalyzeAll
    \/ IoLand

\* The core with the keyword analyzeTab.
Next ==
    \/ Handlers
    \/ \E self \in Running : AnalyzeSet(self)
    \/ Environment

Spec == Init /\ [][Next]_vars

\* ------------------------------------------------ loadSavedData on its own
\* One call of loadSavedData on any live set L and any prior registry and
\* durable snapshot R, with nothing else running.
PeriodicTask == Task("periodic", "ls_get", 0, Undefined, "")

InitReconcile ==
    /\ open \in UNION {[S -> Pages] : S \in SUBSET TabIds}
    /\ gone = {}
    /\ tabData \in PriorStorages
    /\ storage \in PriorStorages
    /\ tasks = <<PeriodicTask>>
    /\ ioq = Issue(<<>>, 1, PeriodicTask, tabData)
    /\ now = 1
    /\ events = 0
    /\ faults = 0
    /\ closing = {}
    /\ popup = PopupIdle
    /\ variant = "keyword"

NextReconcile ==
    \/ LoadGet(1)
    \/ LoadQuery(1)
    \/ LoadSet(1)

SpecReconcile == InitReconcile /\ [][NextReconcile]_vars

\* A browser-internal (privileged) URL.
Internal(url) ==
    \/ StartsWith(url, <<"chrome:">>)
    \/ StartsWith(url, <<"chrome-extension:">>)
    \/ StartsWith(url, <<"about:">>)

Returned(k, kind) == tasks[k].kind = kind /\ tasks[k].pc = "done"

\* C1 (reconciliation closure): when loadSavedData has run to completion on
\* the live set with nothing interleaved, the registry's keys are exactly the
\* ids of the live tabs that are not internal.
C1_ReconcileClosure ==
    (Returned(1, "periodic") /\ ~tasks[1].failed)
        => DOMAIN tabData = {id \in DOMAIN open : ~Internal(open[id].url)}

\* ----------------------------------------------------------------- claims
\* No handler is in flight and no chrome.storage request is pending.
Quiescent ==
    /\ \A k \in Running : tasks[k].pc = "done"
    /\ ioq = <<>>

\* C2 (no record for a tab that is not open): once a tab has been removed and
\* every operation has finished, neither the registry nor the durable
\* snapshot holds a record for its id.
C2_NoRecordForClosedTab ==
    Quiescent => \A id \in gone : id \notin DOMAIN tabData /\ id \notin DOMAIN storage

\* C2, the registry alone: the same, for the in-memory registry.
C2_NoRecordInRegistry ==
    Quiescent => \A id \in gone : id \notin DOMAIN tabData

\* C3 (monotonic lastAccessed): in no step does the lastAccessed of a record
\* of a tab that stays open decrease.
C3_MonotonicLastAccessed ==
    [][\A id \in DOMAIN tabData \cap DOMAIN tabData' :
          id \in DOMAIN open' => tabData'[id].lastAccessed >= tabData[id].lastAccessed]_vars

\* ------------------------------------------- the core with the LLM analyzeTab
InitLLM == InitCommon /\ variant = "llm"

NextLLM ==
    \/ Handlers
    \/ \E self \in Running : LLMFetch(self)
    \/ Environment

SpecLLM == InitLLM /\ [][NextLLM]_vars

\* C4 (category is a label): every record of the registry has a category that
\* is one of the classifier's labels or "Uncategorized".
C4_CategoryIsLabel ==
    \A id \in DOMAIN tabData : tabData[id].category \in Labels \cup {"Uncategorized"}

\* The positions of an invocation inside analyzeTab.
AnalyzePcs == {"an_get", "an_get2", "an_script", "an_set", "llm_fetch"}

\* C7 (enumeration failure surfaces an error): when chrome.tabs.query of a
\* bulk operation rejects, the operation ends in that step, commits nothing
\* and hands the popup a tabDataUpdated notification with status "error".
C7_EnumerationFailureSurfaces ==
    [][\A k \in Running :
          (tasks[k].pc = "bulk_query" /\ tasks'[k].pc = "done")
              => /\ tabData' = tabData
                 /\ tasks'[k].sent =
                        Append(tasks[k].sent, Note("tabDataUpdated", "error"))]_vars

\* C8 (enrichment never fails outward): when a call of analyzeTab on a tab
\* that is not skipped settles, it has not rejected and the registry holds a
\* record for the tab.
C8_EnrichAlwaysLeavesRecord ==
    [][\A k \in Running :
          (tasks[k].pc \in AnalyzePcs /\ tasks'[k].pc \notin AnalyzePcs)
              => /\ ~tasks'[k].failed
                 /\ tasks[k].id \in DOMAIN tabData']_vars

\* A URL that is absent or browser-internal.
AbsentOrInternal(url) == url = Undefined \/ url = <<>> \/ Internal(url)

\* In this step invocation k calls analyzeTab on an open tab whose URL is
\* absent or internal.
CalledOnSkipped(k) ==
    /\ \/ k > Len(tasks) /\ tasks'[k].kind \in {"onCreated", "onUpdated"}
       \/ /\ k <= Len(tasks)
          /\ tasks[k].pc \in {"act_get", "single_get"}
          /\ tasks'[k].pc # tasks[k].pc
    /\ tasks'[k].id \in DOMAIN open'
    /\ AbsentOrInternal(open'[tasks'[k].id].url)

\* C9 (enrich on an internal or absent URL is a no-op): no invocation is ever
\* inside analyzeTab past its skip test for such a tab, and a step that calls
\* analyzeTab on such a tab leaves the registry, its records and the durable
\* snapshot as they were, issues no flush and notifies nobody.
C9_SkippedEnrichIsNoOp ==
    [][/\ \A k \in 1..Len(tasks') :
             tasks'[k].pc \in AnalyzePcs => ~AbsentOrInternal(tasks'[k].url)
       /\ \A k \in 1..Len(tasks') :
             CalledOnSkipped(k)
                 => /\ tabData' = tabData
                    /\ storage' = storage
                    /\ \A j \in (Len(ioq) + 1)..Len(ioq') : ioq'[j].op # "set"
                    /\ tasks'[k].sent = IF k > Len(tasks) THEN <<>> ELSE tasks[k].sent]_vars

\* analyzeSingleTab on an open internal tab has returned.
C9_Witness ==
    \E k \in Running :
        /\ Returned(k, "analyzeSingleTab")
        /\ ~tasks[k].failed
        /\ tasks[k].id \in DOMAIN open
        /\ Internal(open[tasks[k].id].url)

\* ---------------------------------------------- analyzeAllTabs on its own
\* One analyzeAllTabs request over more tabs than one batch holds, with an
\* empty registry and nothing else running.
BulkTabs == BATCH_SIZE + 1

InitBulk ==
    /\ open \in {f \in [1..BulkTabs -> {PageGithub, PageChrome}] :
                    Cardinality({id \in 1..BulkTabs : f[id] = PageGithub}) <= MaxLive}
    /\ gone = {}
    /\ tabData = EmptyMap
    /\ storage = EmptyMap
    /\ tasks = <<BulkRequest>>
    /\ ioq = <<>>
    /\ now = 1
    /\ events = 0
    /\ faults = 0
    /\ closing = {}
    /\ popup = PopupIdle
    /\ variant = "keyword"

NextBulk ==
    \/ \E self \in Running : BulkQuery(self)
    \/ \E self \in Running : BulkJoin(self)
    \/ \E self \in Running : BulkPause(self)
    \/ \E self \in Running : BulkSet(self)
    \/ \E self \in Running : AnalyzeGet(self)
    \/ \E self \in Running : AnalyzeScript(self)
    \/ \E self \in Running : AnalyzeSet(self)

SpecBulk == InitBulk /\ [][NextBulk]_vars

\* The tabDataUpdated notifications with the status among those sent.
Count(sent, status) ==
    Cardinality({n \in 1..Len(sent) : sent[n] = Note("tabDataUpdated", status)})

\* The analyzeTab call that bulk operation b made for the tab, finished.
Processed(b, tab) ==
    \E c \in ChildrenOf(b) : tasks[c].id = tab.id /\ tasks[c].pc = "done"

\* C5 (failure isolation in bulk analysis): when an analyzeAllTabs run has
\* ended, for every tab of its snapshot that is not internal the analyzeTab
\* call was made and has finished, whatever happened to the other calls, and
\* unless that tab's own call failed the registry holds a record for the tab,
\* which is in the durable snapshot too when the run ended with "complete".
C5_BulkFailureIsolation ==
    \A b \in Running :
        Returned(b, "analyzeAllTabs") =>
            \A j \in 1..Len(tasks[b].list) :
                LET tab == tasks[b].list[j] IN
                ~AbsentOrInternal(tab.url) =>
                    /\ Processed(b, tab)
                    /\ \A c \in ChildrenOf(b) :
                          (tasks[c].id = tab.id /\ ~tasks[c].caught)
                              => /\ tab.id \in DOMAIN tabData
                                 /\ Count(tasks[b].sent, "complete") = 1
                                        => tab.id \in DOMAIN storage

\* The run has ended; the call for a tab of the first batch failed and a tab
\* of the second batch has its record.
C5_Witness ==
    \E b \in Running :
        /\ Returned(b, "analyzeAllTabs")
        /\ \E c, d \in ChildrenOf(b) :
              /\ tasks[c].id <= BATCH_SIZE
              /\ tasks[c].caught
              /\ tasks[d].id > BATCH_SIZE
              /\ ~tasks[d].caught
              /\ tasks[d].id \in DOMAIN tabData

\* Invocation k hands the popup a "complete" notification in this step.
Completes(k) ==
    Count(tasks'[k].sent, "complete") > Count(tasks[k].sent, "complete")

\* C6 (one completion per analyzeAllTabs request): a request that has ended
\* outside its error path has handed the popup exactly one tabDataUpdated
\* notification with status "complete", in the step that ends it, after every
\* tab of its snapshot has been processed and its flush has reached the
\* store; and while a request is in flight no operation other than an
\* analyzeAllTabs request hands the popup a "complete" notification.
C6_OneCompletePerRequest ==
    [][/\ \A b \in Running :
             (/\ tasks[b].kind = "analyzeAllTabs"
              /\ tasks'[b].pc = "done"
              /\ Count(tasks'[b].sent, "error") = 0)
                 => Count(tasks'[b].sent, "complete") = 1
       /\ \A k \in Running :
             Completes(k) =>
                 /\ tasks[k].kind = "analyzeAllTabs" =>
                       /\ tasks'[k].pc = "done"
                       /\ \A j \in 1..Len(tasks[k].list) :
                             \/ AbsentOrInternal(tasks[k].list[j].url)
                             \/ Processed(k, tasks[k].list[j])
                       /\ storage' = Head(ioq).snap
                 /\ (\E b \in Running : /\ tasks[b].kind = "analyzeAllTabs"
                                        /\ tasks[b].pc # "done")
                       => tasks[k].kind = "analyzeAllTabs"]_vars

\* ------------------------------------------------- the core and the popup
NextPopup ==
    \/ PopupLoad
    \/ \E id \in TabIds : PopupCloseTab(id)
    \/ PopupAnalyze
    \/ PopupAnalyzeSend
    \/ PopupFresh
    \/ \E id \in TabIds : EvRemoved(id)
    \/ IoLand
    \/ \E self \in Running : LoadGet(self)
    \/ \E self \in Running : LoadQuery(self)
    \/ \E self \in Running : LoadSet(self)
    \/ \E self \in Running : BulkQuery(self)
    \/ \E self \in Running : BulkJoin(self)
    \/ \E self \in Running : BulkSet(self)
    \/ \E self \in Running : AnalyzeGet(self)
    \/ \E self \in Running : AnalyzeGet2(self)
    \/ \E self \in Running : AnalyzeScript(self)
    \/ \E self \in Running : AnalyzeSet(self)
    \/ \E self \in Running : RmSet(self)

SpecPopup == Init /\ [][NextPopup]_vars

\* C10 (only the core writes the durable snapshot): every step that changes
\* the stored tabData is the landing of a request the core issued.
C10_OnlyCoreWritesSnapshot ==
    [][storage' # storage => (ioq # <<>> /\ Head(ioq).by = "core")]_vars

\* --------------------------------------------------- getCategory on its own
\* One call of getCategory(url), for every URL of at most MaxLen tokens over
\* tokens that occur in the keywords of two rules, and for the URL of a tab
\* that has none.
Tokens ==
    {"https:", "zoho.com", "/mail", "copilot.", "microsoft.com", "reddit.com",
     "/r/news", "snapchat.com"}

ClassifyUrls ==
    UNION {[1..n -> Tokens] : n \in 0..MaxLen} \cup {Undefined}

\* The call settles: with the label, or rejected by the TypeError.
Classify(self) ==
    LET t == tasks[self] IN
    /\ t.kind = "getCategory"
    /\ t.pc = "call"
    /\ tasks' = [tasks EXCEPT ![self] =
                    IF getCategoryThrows(t.url)
                    THEN [t EXCEPT !.pc = "done", !.failed = TRUE]
                    ELSE [t EXCEPT !.pc = "done", !.ret = getCategory(t.url)]]
    /\ UNCHANGED <<tabData, storage, ioq, faults>>
    /\ UNCHANGED Others

InitClassify ==
    /\ open = EmptyMap
    /\ gone = {}
    /\ tabData = EmptyMap
    /\ storage = EmptyMap
    /\ tasks \in {<<Task("getCategory", "call", 0, u, "")>> : u \in ClassifyUrls}
    /\ ioq = <<>>
    /\ now = 1
    /\ events = 0
    /\ faults = 0
    /\ closing = {}
    /\ popup = PopupIdle
    /\ variant = "keyword"

NextClassify == Classify(1)

SpecClassify == InitClassify /\ [][NextClassify]_vars

\* The rules one of whose keywords occurs in the URL.
Matching(url) ==
    {i \in 1..Len(rules) : \E k \in rules[i].keywords : Includes(url, k)}

\* C11 (first-match priority): a call of getCategory on a URL in which a
\* keyword of some rule occurs returns the category of the matching rule with
\* the lowest index, the rules being in the order Development, Documents,
\* Email, Entertainment, Reading, Social Media, LLM Chatbots.
C11_FirstMatchPriority ==
    /\ [i \in 1..Len(rules) |-> rules[i].category] =
           <<"Development", "Documents", "Email", "Entertainment", "Reading",
             "Social Media", "LLM Chatbots">>
    /\ \A k \in Running :
          (Returned(k, "getCategory") /\ Matching(tasks[k].url) # {})
              => \E i \in Matching(tasks[k].url) :
                    /\ \A j \in Matching(tasks[k].url) : i <= j
                    /\ ~tasks[k].failed
                    /\ tasks[k].ret = rules[i].category

\* A call on a URL that matches two rules with different categories has
\* returned the category of the earlier one.
C11_Witness ==
    \E k \in Running :
        /\ Returned(k, "getCategory")
        /\ \E i, j \in Matching(tasks[k].url) :
              /\ i < j
              /\ rules[i].category # rules[j].category
              /\ tasks[k].ret = rules[i].category

\* C12 (the classifier is total): getCategory never throws, a missing URL
\* included, so a loadSavedData call in which no browser call is rejected
\* runs to completion on every live set, a tab without a URL among them, and
\* leaves a record for each of the other live tabs.
C12_ClassifierIsTotal ==
    (Returned(1, "periodic") /\ faults = 0)
        => /\ ~tasks[1].failed
           /\ \A id \in DOMAIN open :
                 open[id].url # Undefined => id \in DOMAIN tabData

\* ---------------------------------------------------- analyzeTab on its own
\* analyzeSingleTab requests, each sent when the one before has finished, in
\* a browser whose tabs stay as they are; the registry starts with what
\* loadSavedData left.
EnrichPages == {PageGithub, PageMail, PagePlain, PageChrome}

Idle == \A k \in Running : tasks[k].pc = "done"

EvAnalyzeNext(id) ==
    /\ Idle
    /\ ioq = <<>>
    /\ EvAnalyzeSingle(id)

InitEnrich ==
    /\ open \in UNION {[S -> EnrichPages] : S \in SUBSET TabIds \ {{}}}
    /\ gone = {}
    /\ tabData \in PriorStorages
    /\ storage = tabData
    /\ tasks = <<>>
    /\ ioq = <<>>
    /\ now = 1
    /\ events = 0
    /\ faults = 0
    /\ closing = {}
    /\ popup = PopupIdle
    /\ variant = "keyword"

NextEnrich ==
    \/ \E id \in TabIds : EvAnalyzeNext(id)
    \/ \E self \in Running : SingleGet(self)
    \/ \E self \in Running : AnalyzeGet(self)
    \/ \E self \in Running : AnalyzeScript(self)
    \/ \E self \in Running : AnalyzeSet(self)

SpecEnrich == InitEnrich /\ [][NextEnrich]_vars

\* Invocation k commits its record in this step.
Commits(k) ==
    /\ tasks[k].pc \in {"an_get", "an_get2", "an_script"}
    /\ tasks'[k].pc = "an_set"

\* The category of the lowest-indexed rule with a keyword in the URL.
LowestMatch(url) ==
    IF Matching(url) = {} THEN "Uncategorized"
    ELSE rules[CHOOSE i \in Matching(url) : \A j \in Matching(url) : i <= j].category

\* C13 (keyword enrichment commits the classifier's category): the record an
\* analyzeTab call commits has the id, url and title of the tab and the
\* category the classifier gives the tab's URL ("Development" for a
\* github.com URL), whatever content was fetched and whatever record the
\* registry held before.
C13_EnrichCommitsClassifierCategory ==
    [][\A k \in Running :
          Commits(k) =>
              LET id == tasks[k].id
                  r == tabData'[id]
              IN  /\ r.id = id
                  /\ r.url = open[id].url
                  /\ r.title = open[id].title
                  /\ r.category = LowestMatch(open[id].url)
                  /\ Includes(r.url, <<"github.com">>) => r.category = "Development"]_vars

\* A call on a github.com tab that had a record has committed the fallback
\* triple of a failed script, with category "Development".
C13_Witness ==
    \E k \in Running :
        /\ tasks[k].pc = "an_set"
        /\ tasks[k].id \in DOMAIN tabData \cap DOMAIN storage
        /\ LET r == tabData[tasks[k].id]
           IN  /\ Includes(r.url, <<"github.com">>)
               /\ r.category = "Development"
               /\ r.content.bodyText # <<"body">>
               /\ r.lastAccessed > storage[tasks[k].id].lastAccessed

\* C14 (summary is never empty): the summary of every record of the registry
\* is a string that is not empty, never null or undefined.
C14_SummaryNeverEmpty ==
    \A id \in DOMAIN tabData : tabData[id].summary \notin {"", Absent}

\* C15 (enrichment falls back to the keyword classifier): when the call to
\* the analysis service fails, the record analyzeTab commits has the category
\* the keyword classifier gives the tab's URL.  The failed call is the one
\* whose analysis is what the catch of analyzeThroughLLM returns: no topics
\* and importance 'medium'.
C15_FailedAnalysisUsesClassifier ==
    [][\A k \in Running :
          (/\ tasks[k].pc = "llm_fetch"
           /\ tasks'[k].pc # "llm_fetch"
           /\ tabData'[tasks[k].id].topics = "[]"
           /\ tabData'[tasks[k].id].importance = "medium")
              => tabData'[tasks[k].id].category = LowestMatch(tasks[k].url)]_vars

\* An earlier analyzeTab call on the tab of invocation k has committed its
\* record and returned normally.
EnrichedBefore(k) ==
    \E j \in Running :
        /\ j # k
        /\ tasks[j].id = tasks[k].id
        /\ Returned(j, "analyzeSingleTab")
        /\ ~tasks[j].failed
        /\ ~tasks[j].caught

\* C16 (enrichment is idempotent): when analyzeTab is called on a tab, whose
\* id, url and title have not changed, after an earlier call on it has
\* finished, the record it commits has the category and the summary of the
\* record the earlier call committed, whatever the two content fetches
\* returned.
C16_EnrichIsIdempotent ==
    [][\A k \in Running :
          (Commits(k) /\ EnrichedBefore(k) /\ tasks[k].id \in DOMAIN tabData)
              => /\ tabData'[tasks[k].id].category = tabData[tasks[k].id].category
                 /\ tabData'[tasks[k].id].summary = tabData[tasks[k].id].summary]_vars

\* C17 (reconcile leaves the records of live tabs untouched): no step of a
\* loadSavedData call that does not end in its catch removes or changes the
\* registry's record of a live tab, so the record after the call is the one
\* the registry held when the call was made; and when the call has returned
\* the registry holds no record of a tab that is not live.
C17_ReconcileFrame ==
    [][(tasks[1].pc # "done" /\ ~tasks'[1].failed)
          => /\ \A id \in DOMAIN tabData \cap DOMAIN open :
                   /\ id \in DOMAIN tabData'
                   /\ tabData'[id] = tabData[id]
             /\ tasks'[1].pc = "done" => DOMAIN tabData' \subseteq DOMAIN open]_vars

\* C18 (reconcile reports what it did): a loadSavedData call that completes
\* returns to its caller the pair {added, removed}: the number of live tabs
\* that had no record in the hydrated registry and the number of its records
\* whose tab is not live.
C18_ReconcileReportsCounts ==
    [][(tasks[1].pc = "ls_set" /\ tasks'[1].pc = "done" /\ ~tasks'[1].failed)
          => tasks'[1].ret =
                 [added |-> Cardinality(DOMAIN open \ DOMAIN storage),
                  removed |-> Cardinality(DOMAIN storage \ DOMAIN open)]]_vars

\* ---------------------------------------------- the popup's requests to the core
\* What getTabDataWithTimeout resolves with, and what the analyzeAllTabs
\* request of analyzeTabs resolves with.
Resp(td, err) == [tabData |-> td, error |-> err]
NoAck(err) == [success |-> FALSE, error |-> err]

\* The value is the one a timer callback resolves with.
TimedOut(r) ==
    /\ "error" \in DOMAIN r
    /\ r.error \in {"Timeout getting tab data", "Operation timed out"}

\* The messages still without a callback once a request has resolved with r.
Unanswered(r, msg) ==
    IF TimedOut(r) THEN popup.late \cup {msg} ELSE popup.late

\* refreshDataFromBackground once getTabDataWithTimeout(5000) has resolved with
\* r: data that is not empty is shown; after an error the popup keeps what it
\* shows, if anything; otherwise analyzeTabs runs.
AfterData(r, q) ==
    IF r.tabData # EmptyMap
    THEN /\ popup' = [popup EXCEPT !.pc = "idle", !.data = r.tabData, !.resp = r]
         /\ ioq' = q
    ELSE IF r.error # Absent /\ popup.data # EmptyMap
    THEN /\ popup' = [popup EXCEPT !.pc = "idle", !.resp = r,
                                   !.late = Unanswered(r, "getTabData")]
         /\ ioq' = q
    ELSE /\ popup' = Cleared([popup EXCEPT !.resp = r,
                                           !.late = Unanswered(r, "getTabData")])
         /\ ioq' = Append(q, Req("remove", 0, EmptyMap, "popup"))

\* analyzeTabs once getTabDataWithTimeout(10000) has resolved with r: data that
\* is not empty is shown, otherwise records built from the tabs it queried,
\* and the message {action: "refreshAllTabs"} is sent, which no branch of the
\* core's listener matches: the core does nothing with it.
AfterFresh(r, q) ==
    /\ popup' = [popup EXCEPT
                    !.pc = "idle", !.resp = r,
                    !.late = Unanswered(r, "getTabData"),
                    !.data = IF r.tabData # EmptyMap THEN r.tabData
                             ELSE [id \in DOMAIN open |-> Basic(TabOf(id), now)]]
    /\ ioq' = q

\* analyzeTabs once its analyzeAllTabs request has resolved with r: after a
\* failure the popup shows records built from the tabs it queried and sends
\* {action: "refreshAllTabs"}, which no branch of the core's listener matches.
AfterAck(r) ==
    popup' = IF r.success
             THEN [popup EXCEPT !.pc = "fresh", !.resp = r]
             ELSE [popup EXCEPT !.pc = "idle", !.resp = r,
                                !.late = Unanswered(r, "analyzeAllTabs"),
                                !.data = [id \in DOMAIN open |-> Basic(TabOf(id), now)]]

\* refreshDataFromBackground starts: getTabDataWithTimeout returns the stored
\* snapshot when it is not empty; otherwise it sends getTabData, arms its
\* timer and waits.
PopupRefresh ==
    /\ MayHappen
    /\ Happens
    /\ popup.pc = "idle"
    /\ IF storage # EmptyMap
       THEN AfterData(Resp(storage, Absent), ioq)
       ELSE /\ popup' = [popup EXCEPT !.pc = "wait_data", !.resp = Pending]
            /\ UNCHANGED ioq
    /\ UNCHANGED <<open, gone, tabData, storage, tasks, faults, variant, closing>>

\* analyzeTabs: the remove has settled; chrome.tabs.query, then the
\* analyzeAllTabs message is sent, the 15 s timer armed.
PopupAnalyzeAsk ==
    /\ popup.pc = "clearing"
    /\ \A j \in 1..Len(ioq) : ioq[j].op # "remove"
    /\ popup' = [popup EXCEPT !.pc = IF DOMAIN open = {} THEN "idle" ELSE "wait_ack",
                              !.resp = Pending]
    /\ UNCHANGED <<open, gone, tabData, storage, ioq, tasks, now, events, faults,
                   variant, closing>>

\* analyzeTabs after the acknowledgment: getTabDataWithTimeout(10000).
PopupFreshAsk ==
    /\ popup.pc = "fresh"
    /\ IF storage # EmptyMap
       THEN AfterFresh(Resp(storage, Absent), ioq)
       ELSE /\ popup' = [popup EXCEPT !.pc = "wait_fresh", !.resp = Pending]
            /\ UNCHANGED ioq
    /\ UNCHANGED <<open, gone, tabData, storage, tasks, now, events, faults,
                   variant, closing>>

\* The core's listener gets the getTabData message: it responds with its
\* registry and starts loadSavedData; the popup's callback resolves.
CoreAnswers ==
    /\ popup.pc \in {"wait_data", "wait_fresh"}
    /\ AskCore
    /\ LET q == Append(ioq, Req("get", Len(tasks) + 1, EmptyMap, "core")) IN
       IF popup.pc = "wait_data"
       THEN AfterData(Resp(tabData, Absent), q)
       ELSE AfterFresh(Resp(tabData, Absent), q)
    /\ UNCHANGED <<open, gone, tabData, storage, now, events, faults, variant, closing>>

\* The core's listener gets the analyzeAllTabs message: it acknowledges and
\* starts chrome.tabs.query; the popup's callback resolves.
CoreAcks ==
    /\ popup.pc = "wait_ack"
    /\ Spawn(BulkRequest, tabData)
    /\ AfterAck(Ack)
    /\ UNCHANGED <<open, gone, tabData, storage, now, events, faults, variant, closing>>

\* The callback runs with chrome.runtime.lastError set (no receiving end).
RuntimeError ==
    /\ CanFail
    /\ faults' = faults + 1
    /\ \/ /\ popup.pc = "wait_data"
          /\ AfterData(Resp(EmptyMap, "lastError"), ioq)
       \/ /\ popup.pc = "wait_fresh"
          /\ AfterFresh(Resp(EmptyMap, "lastError"), ioq)
       \/ /\ popup.pc = "wait_ack"
          /\ AfterAck(NoAck("No response from background"))
          /\ UNCHANGED ioq
    /\ UNCHANGED <<open, gone, tabData, storage, tasks, now, events, variant, closing>>

\* getTabDataWithTimeout with no timer: nothing resolves the promise but the
\* callback.
DataTimeoutNever ==
    /\ popup.pc = "never"
    /\ UNCHANGED vars

\* The timer of getTabDataWithTimeout fires before any callback.
DataTimeout ==
    /\ popup.pc \in {"wait_data", "wait_fresh"}
    /\ IF popup.pc = "wait_data"
       THEN AfterData(Resp(EmptyMap, "Timeout getting tab data"), ioq)
       ELSE AfterFresh(Resp(EmptyMap, "Timeout getting tab data"), ioq)
    /\ UNCHANGED <<open, gone, tabData, storage, tasks, now, events, faults,
                   variant, closing>>

\* The 15 s timer of analyzeTabs fires before any callback.
AckTimeout ==
    /\ popup.pc = "wait_ack"
    /\ AfterAck(NoAck("Operation timed out"))
    /\ UNCHANGED <<open, gone, tabData, storage, ioq, tasks, now, events, faults,
                   variant, closing>>

\* The callback of a getTabData message runs after the timer has resolved the
\* promise, and replaces what the popup shows by the response.
LateAnswerMerged ==
    /\ "getTabData" \in popup.late
    /\ AskCore
    /\ ioq' = Append(ioq, Req("get", Len(tasks) + 1, EmptyMap, "core"))
    /\ popup' = [popup EXCEPT !.late = @ \ {"getTabData"}, !.data = tabData,
                              !.resp = Resp(tabData, Absent)]
    /\ UNCHANGED <<open, gone, tabData, storage, now, events, faults, variant, closing>>

\* The core's listener gets a getTabData message whose timer has fired: it
\* responds and starts loadSavedData; the popup's callback clears the timer
\* that has run and resolves the promise that is settled.
LateAnswer ==
    /\ "getTabData" \in popup.late
    /\ AskCore
    /\ ioq' = Append(ioq, Req("get", Len(tasks) + 1, EmptyMap, "core"))
    /\ popup' = [popup EXCEPT !.late = @ \ {"getTabData"}]
    /\ UNCHANGED <<open, gone, tabData, storage, now, events, faults, variant, closing>>

\* The same for an analyzeAllTabs message: the core acknowledges and starts
\* its run; the acknowledgment resolves a settled promise.
LateAck ==
    /\ "analyzeAllTabs" \in popup.late
    /\ Spawn(BulkRequest, tabData)
    /\ popup' = [popup EXCEPT !.late = @ \ {"analyzeAllTabs"}]
    /\ UNCHANGED <<open, gone, tabData, storage, now, events, faults, variant, closing>>

NextRequest ==
    \/ PopupRefresh
    \/ PopupAnalyze
    \/ PopupAnalyzeAsk
    \/ PopupFreshAsk
    \/ CoreAnswers
    \/ CoreAcks
    \/ RuntimeError
    \/ DataTimeout
    \/ AckTimeout
    \/ LateAnswer
    \/ LateAck
    \/ IoLand
    \/ \E self \in Running : LoadGet(self)
    \/ \E self \in Running : LoadQuery(self)
    \/ \E self \in Running : LoadSet(self)
    \/ \E self \in Running : BulkQuery(self)
    \/ \E self \in Running : BulkJoin(self)
    \/ \E self \in Running : BulkSet(self)
    \/ \E self \in Running : AnalyzeGet(self)
    \/ \E self \in Running : AnalyzeScript(self)
    \/ \E self \in Running : AnalyzeSet(self)

\* A timer that is armed fires unless it is cleared first; nothing makes the
\* core answer.
SpecRequest ==
    /\ Init
    /\ [][NextRequest]_vars
    /\ WF_vars(DataTimeout)
    /\ WF_vars(AckTimeout)

\* The popup waits for the callback of a request it sent to the core.
Waiting == popup.pc \in {"wait_data", "wait_fresh", "wait_ack"}

\* C19 (a popup request never waits forever): a getTabData or analyzeAllTabs
\* request that is waiting is eventually resolved, whether or not the core
\* ever answers; when it is resolved without the core having received the
\* message and without a runtime error, getTabData resolves with an empty
\* tabData and the timeout error, analyzeAllTabs with {success: false,
\* error: 'Operation timed out'}; when the core answers, they resolve with
\* its response.
C19_RequestsResolve ==
    /\ Waiting ~> ~Waiting
    /\ [][(Waiting /\ popup'.resp # popup.resp) =>
             IF faults' # faults THEN TRUE
             ELSE IF popup.pc = "wait_ack"
             THEN popup'.resp =
                      IF tasks' = tasks
                      THEN [success |-> FALSE, error |-> "Operation timed out"]
                      ELSE [success |-> TRUE, status |-> "started"]
             ELSE popup'.resp =
                      IF tasks' = tasks
                      THEN [tabData |-> EmptyMap, error |-> "Timeout getting tab data"]
                      ELSE [tabData |-> tabData, error |-> Absent]]_vars

\* The core has never received anything and the popup's getTabData request
\* has resolved with the timeout.
C19_Witness ==
    /\ tasks = <<>>
    /\ ~Waiting
    /\ popup.resp = [tabData |-> EmptyMap, error |-> "Timeout getting tab data"]

\* ------------------------------- analyzeAllTabs with a page that never answers
\* One analyzeAllTabs request over more tabs than one batch holds, some of
\* which never answer the injected script.
InitHang ==
    /\ open \in {f \in [1..BulkTabs -> {PageGithub, PageChrome, PageHung}] :
                    Cardinality({id \in 1..BulkTabs : f[id] # PageChrome}) <= MaxLive}
    /\ gone = {}
    /\ tabData = EmptyMap
    /\ storage = EmptyMap
    /\ tasks = <<BulkRequest>>
    /\ ioq = <<>>
    /\ now = 1
    /\ events = 0
    /\ faults = 0
    /\ closing = {}
    /\ popup = PopupIdle
    /\ variant = "keyword"

SpecHang == InitHang /\ [][NextBulk]_vars

\* A step of an analyzeTab call, or the end of the wait for a batch.
BatchStep ==
    \E self \in Running :
        \/ AnalyzeGet(self)
        \/ AnalyzeScript(self)
        \/ AnalyzeSet(self)
        \/ BulkJoin(self)

\* C20 (a content fetch that never answers does not block enrichment): an
\* analyzeAllTabs run that waits for a batch is never stuck, also when a page
\* never answers the content fetch: one of the batch's analyzeTab calls can
\* take its next step or the wait can end, so the run goes on to its later
\* batches and to its completion.
C20_HungFetchDoesNotBlock ==
    \A b \in Running :
        (tasks[b].kind = "analyzeAllTabs" /\ tasks[b].pc = "bulk_wait")
            => ENABLED BatchStep

\* C21 (a late result is discarded): a response that reaches its callback
\* after the request's timer has resolved it changes neither the value the
\* request resolved to nor the tab data the popup holds; and a request
\* resolves with a timer's value only while it waits, so a timer has no effect
\* on a request that its response has resolved.
C21_LateResultDiscarded ==
    /\ [][(popup'.late # popup.late /\ popup'.late \subseteq popup.late)
             => /\ popup'.resp = popup.resp
                /\ popup'.data = popup.data
                /\ popup'.pc = popup.pc]_vars
    /\ [][(popup'.resp # popup.resp /\ TimedOut(popup'.resp)) => Waiting]_vars

\* A getTabData request has resolved with its timeout and the core has since
\* answered it from a registry that is not empty.
C21_Witness ==
    /\ popup.resp = [tabData |-> EmptyMap, error |-> "Timeout getting tab data"]
    /\ "getTabData" \notin popup.late
    /\ tabData # EmptyMap
    /\ \E k \in Running : tasks[k].kind = "getTabData"

\* C22 (a failed reconcile rebuilds): when the loadSavedData call of the
\* 5-minute timer has failed and returned, with nothing left running, the
\* registry has been rebuilt: every open tab that is not internal has a
\* record.
C22_FailedReconcileRebuilds ==
    (Returned(1, "periodic") /\ tasks[1].failed /\ ioq = <<>>)
        => \A id \in DOMAIN open :
              ~AbsentOrInternal(open[id].url) => id \in DOMAIN tabData

\* The ids of message.tabIds of closeTabs invocation t.
TabIdsOf(t) == {t.list[j] : j \in 1..Len(t.list)}

C24_SingleTabEnriched ==
    [][\A k \in Running :
          tasks[k].kind = "analyzeSingleTab" =>
              /\ (tasks[k].pc = "single_get" /\ tasks'[k].pc # "single_get")
                    => tasks'[k].ret =
                           IF tasks[k].id \in DOMAIN open
                           THEN [success |-> TRUE]
                           ELSE [success |-> FALSE, error |-> "No tab with id"]
              /\ (/\ tasks[k].pc \in {"an_get", "an_get2", "an_script"}
                  /\ tasks[k].id \in DOMAIN open
                  /\ ~AbsentOrInternal(open[tasks[k].id].url))
                    => tasks'[k].pc # "done"]_vars

\* C25 (analyzeAllTabs is acknowledged at once): from the moment the request
\* is received, so before chrome.tabs.query has settled and before any of
\* its analyzeTab calls is started, the response of an analyzeAllTabs
\* request is {success: true, status: "started"}, and it stays that one
\* response to the end of the run, whether the run ends with "complete",
\* with "error", or not at all.
C25_AckBeforeWork ==
    \A k \in Running :
        tasks[k].kind = "analyzeAllTabs" =>
            /\ tasks[k].ret = [success |-> TRUE, status |-> "started"]
            /\ tasks[k].pc = "bulk_query" =>
                  /\ tasks[k].list = <<>>
                  /\ ChildrenOf(k) = {}

\* A request was acknowledged and its run has ended with status "error".
C25_Witness ==
    \E k \in Running :
        /\ Returned(k, "analyzeAllTabs")
        /\ Count(tasks[k].sent, "error") = 1
        /\ tasks[k].ret = [success |-> TRUE, status |-> "started"]

\* ------------------------------------------------- getPageContent on its own
\* One call of getPageContent(tabId), for an id that is or is not the id of
\* an open tab, on internal and ordinary pages; the tab may close while the
\* call runs.
FetchTask(id) == Task("getPageContent", "an_get", id, Undefined, "")

InitFetch ==
    /\ open \in UNION {[S -> Pages \cup {PagePlain}] : S \in SUBSET TabIds}
    /\ gone = {}
    /\ tabData = EmptyMap
    /\ storage = EmptyMap
    /\ tasks \in {<<FetchTask(id)>> : id \in TabIds}
    /\ ioq = <<>>
    /\ now = 1
    /\ events = 0
    /\ faults = 0
    /\ closing = {}
    /\ popup = PopupIdle
    /\ variant = "keyword"

NextFetch ==
    \/ \E self \in Running : AnalyzeGet(self)
    \/ \E self \in Running : AnalyzeGet2(self)
    \/ \E self \in Running : AnalyzeScript(self)
    \/ \E id \in TabIds : EvRemoved(id)

SpecFetch == InitFetch /\ [][NextFetch]_vars

\* C26 (getPageContent always resolves to a content record): a call of
\* getPageContent that has settled has not rejected and has returned a record
\* {title, metaDescription, bodyText}, whether the tab lookup succeeded or
\* failed, the URL was internal or not, and the injected script returned its
\* value, failed, or returned nothing.
C26_FetchContentTotal ==
    \A k \in Running :
        Returned(k, "getPageContent") =>
            /\ ~tasks[k].failed
            /\ tasks[k].ret # NullContent
            /\ DOMAIN tasks[k].ret = {"title", "metaDescription", "bodyText"}

\* ------------------------------------------------- the length of bodyText
\* substring(0, 1000) in the injected function of getPageContent.
MaxBody == 1000

\* A path of 1000 characters.
LongPath == "/<1000 characters>"

\* An ordinary page whose address is long.
PageLong ==
    [url |-> <<"https:", "//", "example.org", LongPath>>, title |-> "long",
     doc |-> "long"]

\* The number of characters a token stands for; "body" is what substring(0,
\* 1000) returns for a document with more text than that. A token that is not
\* listed counts as nothing.
Width(token) ==
    CASE token = "body" -> MaxBody
      [] token = "[Content not accessible] - " -> 27
      [] token = "[Tab information unavailable]" -> 29
      [] token = LongPath -> 1000
      [] token = "https:" -> 6
      [] token = "//" -> 2
      [] token = "github.com" -> 10
      [] token = "example.org" -> 11
      [] token = "zoho.com" -> 8
      [] token = "/foo" -> 4
      [] token = "/mail" -> 5
      [] OTHER -> 0

\* String.prototype.length of a token sequence.
RECURSIVE Length(_)
Length(text) ==
    IF text = <<>> THEN 0 ELSE Width(Head(text)) + Length(Tail(text))

InitLong ==
    /\ open \in UNION {[S -> {PageGithub, PageChrome, PageLong}] :
                          S \in SUBSET TabIds \ {{}}}
    /\ gone = {}
    /\ tabData = EmptyMap
    /\ storage = EmptyMap
    /\ tasks = <<>>
    /\ ioq = <<>>
    /\ now = 1
    /\ events = 0
    /\ faults = 0
    /\ closing = {}
    /\ popup = PopupIdle
    /\ variant = "keyword"

SpecLong == InitLong /\ [][NextEnrich]_vars

\* C27 (bodyText is bounded): in every record of the registry content.bodyText
\* has at most 1000 characters, whichever path of getPageContent produced it.
C27_BodyTextBounded ==
    \A id \in DOMAIN tabData : Length(tabData[id].content.bodyText) <= MaxBody

\* C28 (an undeliverable notification is swallowed): in a step in which a
\* handler hands a notification to a popup that is not open, the notification
\* is handed over once and not again; the catch of analyzeTab does not run;
\* the handler goes on to its end or to its next call, and the only failure
\* it can end with is that of the loadSavedData it notifies about; and,
\* unless that call failed or a browser call is rejected in the same step,
\* the registry is unchanged and the durable snapshot changes at most by the
\* flush the handler had awaited before notifying.
C28_UndeliveredNotificationSwallowed ==
    [][\A k \in Running :
          (popup = PopupIdle /\ tasks'[k].sent # tasks[k].sent) =>
              /\ Len(tasks'[k].sent) = Len(tasks[k].sent) + 1
              /\ SubSeq(tasks'[k].sent, 1, Len(tasks[k].sent)) = tasks[k].sent
              /\ tasks'[k].caught = tasks[k].caught
              /\ tasks'[k].pc \in {"done", "ls_get"}
              /\ tasks'[k].failed =>
                    /\ tasks[k].kind = "getTabData"
                    /\ tasks'[k].ret = [boolean |-> FALSE]
              /\ (~tasks'[k].failed /\ faults' = faults) =>
                    /\ tabData' = tabData
                    /\ \/ storage' = storage
                       \/ /\ ioq # <<>>
                          /\ Head(ioq).task = k
                          /\ storage' = Head(ioq).snap]_vars

\* With no popup open, an analyzeAllTabs run has ended normally after its
\* "complete" notification, and so has one of its analyzeTab calls after its
\* "tabAnalyzed" notification.
C28_Witness ==
    /\ popup = PopupIdle
    /\ \E k \in Running :
          /\ Returned(k, "analyzeAllTabs")
          /\ ~tasks[k].failed
          /\ Count(tasks[k].sent, "complete") = 1
          /\ \E c \in ChildrenOf(k) :
                /\ tasks[c].sent = <<Note("tabAnalyzed", Absent)>>
                /\ ~tasks[c].failed
                /\ ~tasks[c].caught

\* C29 (the durable snapshot follows the registry): whenever no handler is in
\* flight and no chrome.storage request is pending, the durable snapshot
\* equals the in-memory registry.
C29_SnapshotEqualsRegistry ==
    Quiescent => storage = tabData

\* The positions in the snapshot of bulk operation b of the tab with the id.
Places(b, id) == {j \in 1..Len(tasks[b].list) : tasks[b].list[j].id = id}

\* The analyzeTab calls of bulk operation b that have not settled.
InFlight(b) == {c \in ChildrenOf(b) : tasks[c].pc # "done"}

\* C30 (one snapshot, consecutive batches of at most 5): in an analyzeAllTabs
\* run the tab list, once queried, never changes; the analyzeTab calls in
\* flight are all for tabs of the current batch, the BATCH_SIZE consecutive
\* positions from the loop index on, so they are at most BATCH_SIZE and no
\* call of a later batch is started while one of an earlier batch has not
\* settled; no tab has two calls; and when the run has ended with "complete"
\* every tab of the snapshot that analyzeTab does not skip has had its call.
C30_BatchesInOrder ==
    /\ [](\A b \in Running :
             tasks[b].kind = "analyzeAllTabs" =>
                 /\ Cardinality(InFlight(b)) <= BATCH_SIZE
                 /\ \A c \in InFlight(b) :
                       \A j \in Places(b, tasks[c].id) :
                           /\ tasks[b].i <= j
                           /\ j < tasks[b].i + BATCH_SIZE
                 /\ \A j \in 1..Len(tasks[b].list) :
                       Cardinality({c \in ChildrenOf(b) :
                                       tasks[c].id = tasks[b].list[j].id}) <= 1
                 /\ (tasks[b].pc = "done" /\ Count(tasks[b].sent, "complete") = 1)
                       => \A j \in 1..Len(tasks[b].list) :
                             \/ Skipped(tasks[b].list[j].url)
                             \/ \E c \in ChildrenOf(b) :
                                   tasks[c].id = tasks[b].list[j].id)
    /\ [][\A b \in Running :
             (tasks[b].kind = "analyzeAllTabs" /\ tasks[b].pc # "bulk_query")
                 => tasks'[b].list = tasks[b].list]_vars

\* The run is in its second batch: the call for a tab of the first batch has
\* settled and the call for the sixth tab is in flight.
C30_Witness ==
    \E b \in Running :
        /\ tasks[b].kind = "analyzeAllTabs"
        /\ tasks[b].pc = "bulk_wait"
        /\ tasks[b].i = BATCH_SIZE + 1
        /\ \E c \in InFlight(b) : tasks[c].id = BATCH_SIZE + 1
        /\ \E c \in ChildrenOf(b) : tasks[c].id <= BATCH_SIZE /\ tasks[c].pc = "done"

\* C31 (new tabs get a placeholder before reconcile returns): when a
\* loadSavedData call in which no browser call was rejected has returned,
\* every live tab has a record, and the record of a tab that had none in the
\* snapshot read is the placeholder: its summary is the tab's title or "No
\* summary available", its content has no description and no body text; and
\* the call has returned while the refreshAllTabData it started, if any, has
\* not yet queried the tabs.
C31_NewTabsGetPlaceholders ==
    [][(tasks[1].pc # "done" /\ tasks'[1].pc = "done" /\ faults' = 0) =>
          /\ \A id \in DOMAIN open :
                /\ id \in DOMAIN tabData'
                /\ id \notin DOMAIN storage =>
                      /\ tabData'[id].summary =
                             OrElse(open[id].title, "No summary available")
                      /\ tabData'[id].content = Content(open[id].title, "", <<>>)
          /\ \A k \in 2..Len(tasks') : tasks'[k].pc = "bulk_query"]_vars

\* ------------------------------------------------------- closeInactiveTabs
\* 30 * 60 * 1000 ms.
THIRTY_MINUTES == 1800000

\* The filter with "at least 30 minutes ago".
InactiveInclusive(data, time) ==
    {id \in DOMAIN data : data[id].lastAccessed <= time - THIRTY_MINUTES}

\* The ids of the popup's records last accessed before thirtyMinutesAgo.
Inactive(data, time) ==
    {id \in DOMAIN data : data[id].lastAccessed < time - THIRTY_MINUTES}

\* The Close Inactive button: the ids are collected; when there are some the
\* confirm dialog opens, otherwise an alert is shown.
PopupCloseInactive ==
    /\ MayHappen
    /\ Happens
    /\ popup.pc = "idle"
    /\ popup' = IF Inactive(popup.data, now) # {}
                THEN [popup EXCEPT !.pc = "confirm",
                                   !.picked = Inactive(popup.data, now)]
                ELSE popup
    /\ UNCHANGED <<open, gone, tabData, storage, ioq, tasks, faults, variant, closing>>

\* The user answers the dialog: on OK the closeTabs message is sent, the core
\* handles it and the callback renders the popup's tabData again.
PopupConfirm(ok) ==
    /\ popup.pc = "confirm"
    /\ popup' = [popup EXCEPT !.pc = "idle", !.picked = {}]
    /\ IF ok THEN CloseTabs(popup.picked)
             ELSE UNCHANGED <<tabData, ioq, tasks, closing>>
    /\ UNCHANGED <<open, gone, storage, now, events, faults, variant>>

\* What the popup shows for a tab it loaded: the stored record.
Shown(id, time) == [PriorRecord(id) EXCEPT !.lastAccessed = time]

\* The popup shows the stored records of open tabs, last accessed 30 minutes
\* before the click, one millisecond earlier or one later.
InitInactive ==
    /\ open \in UNION {[S -> {PageGithub, PagePlain}] : S \in SUBSET TabIds \ {{}}}
    /\ gone = {}
    /\ tabData \in {[id \in DOMAIN open |-> Shown(id, la[id])] :
                       la \in [DOMAIN open -> 0..2]}
    /\ storage = tabData
    /\ tasks = <<>>
    /\ ioq = <<>>
    /\ now = THIRTY_MINUTES + 1
    /\ events = 0
    /\ faults = 0
    /\ closing = {}
    /\ popup = [PopupIdle EXCEPT !.data = tabData, !.isInitialized = TRUE, !.listeners = 1]
    /\ variant = "keyword"

NextInactive ==
    \/ PopupCloseInactive
    \/ \E ok \in BOOLEAN : PopupConfirm(ok)
    \/ \E id \in TabIds : EvRemoved(id)
    \/ \E self \in Running : RmSet(self)
    \/ IoLand

SpecInactive == InitInactive /\ [][NextInactive]_vars

\* C32 (closeInactiveTabs closes the tabs idle for more than 30 minutes): the
\* ids the user is asked about are exactly those of the popup's records with
\* lastAccessed < now - 30 minutes; when there is none, nothing is sent; a
\* closeTabs message is sent only in the step in which the user answers the
\* dialog, at most one, and with exactly those ids.
C32_CloseInactiveSelection ==
    [][LET S == {id \in DOMAIN popup.data :
                    popup.data[id].lastAccessed + THIRTY_MINUTES < now}
       IN  /\ (popup.pc = "idle" /\ events' # events /\ open' = open) =>
                 /\ tasks' = tasks
                 /\ IF S = {} THEN popup' = popup
                    ELSE popup'.pc = "confirm" /\ popup'.picked = S
           /\ (popup.pc = "confirm" /\ popup'.pc = "idle") =>
                 \/ tasks' = tasks
                 \/ tasks' = Append(tasks, Closed(popup.picked))
           /\ Len(tasks') > Len(tasks) /\ tasks'[Len(tasks')].kind = "closeTabs"
                 => popup.pc = "confirm"]_vars

\* The user confirmed at a moment when one tab was last accessed more than 30
\* minutes before and the other exactly 30 minutes before: the message lists
\* the first only.
C32_Witness ==
    /\ events = 1
    /\ \E k \in Running :
          /\ tasks[k].kind = "closeTabs"
          /\ \E id \in TabIdsOf(tasks[k]) : popup.data[id].lastAccessed = 0
          /\ \E id \in DOMAIN popup.data \ TabIdsOf(tasks[k]) :
                popup.data[id].lastAccessed = 1

\* C33 (a failed close is reported): the core answers a closeTabs request
\* with {success: true} only when every listed tab could be closed, that is,
\* when every listed id is the id of an open tab.
C33_CloseFailureReported ==
    [][\A k \in 1..Len(tasks') :
          (/\ k > Len(tasks)
           /\ tasks'[k].kind = "closeTabs"
           /\ tasks'[k].ret = [success |-> TRUE])
              => TabIdsOf(tasks'[k]) \subseteq DOMAIN open]_vars

\* C34 (the persisted records survive a restart): after a start of the
\* process, as long as no browser call has been rejected and no closeTabs
\* request has been handled, no write to chrome.storage drops the persisted
\* record of a tab that is still open.
C34_SnapshotSurvivesRestart ==
    [][(faults' = 0 /\ \A k \in 1..Len(tasks') : tasks'[k].kind # "closeTabs") =>
          \A id \in DOMAIN storage :
              id \in DOMAIN open' => id \in DOMAIN storage']_vars

\* C35 (no lost update between enrichment and reconcile): when the read of
\* the durable snapshot of a loadSavedData call settles while an analyzeTab
\* call has committed the record of a live tab and its flush is still behind
\* that read, the registry rebuilt from the snapshot still holds the committed
\* record of that tab, not the record the snapshot had (every live tab has a
\* URL, nothing has been rejected).
C35_NoLostUpdate ==
    [][\A k \in Running :
          (/\ tasks[k].pc = "ls_get" /\ tasks'[k].pc = "ls_query"
           /\ faults' = 0
           /\ \A id \in DOMAIN open : open[id].url # Undefined)
              => \A j \in Running :
                     (/\ tasks[j].pc = "an_set"
                      /\ tasks[j].id \in DOMAIN tabData \cap DOMAIN open \cap DOMAIN storage)
                         => /\ tasks[j].id \in DOMAIN tabData'
                            /\ tabData'[tasks[j].id] = tabData[tasks[j].id]]_vars

\* ---------------------------------------------------------------- initPopup
\* initPopup is called (DOMContentLoaded): a call after the first returns at
\* once; the first sets the flag, installs the message listener and awaits
\* chrome.storage.local.get('tabData').
InitPopup ==
    /\ MayHappen
    /\ Happens
    /\ popup' = IF popup.isInitialized THEN popup
                ELSE [popup EXCEPT !.isInitialized = TRUE, !.inInit = TRUE, !.pc = "boot"]
    /\ UNCHANGED <<open, gone, tabData, storage, ioq, tasks, faults, variant, closing>>

\* The get of initPopup settles. A stored snapshot that is not empty is shown,
\* refreshDataFromBackground is started without being awaited (it shows the
\* stored snapshot again) and initPopup returns. Otherwise, and when the get
\* rejects, refreshDataFromBackground is awaited.
InitPopupGet ==
    /\ popup.pc = "boot"
    /\ \/ /\ IF storage # EmptyMap
             THEN popup' = [popup EXCEPT !.pc = "idle", !.inInit = FALSE,
                                         !.data = storage,
                                         !.resp = Resp(storage, Absent)]
             ELSE popup' = [popup EXCEPT !.pc = "wait_data", !.resp = Pending]
          /\ UNCHANGED <<ioq, faults>>
       \/ /\ CanFail
          /\ faults' = faults + 1
          /\ IF storage # EmptyMap
             THEN AfterData(Resp(storage, Absent), ioq)
             ELSE /\ popup' = [popup EXCEPT !.pc = "wait_data", !.resp = Pending]
                  /\ UNCHANGED ioq
    /\ UNCHANGED <<open, gone, tabData, storage, tasks, now, events, variant, closing>>

\* The awaited refreshDataFromBackground has returned (or thrown into the
\* catch of initPopup): the three handlers are registered.
InitPopupRegister ==
    /\ popup.inInit
    /\ popup.pc = "idle"
    /\ popup' = [popup EXCEPT !.inInit = FALSE, !.listeners = @ + 1]
    /\ UNCHANGED <<open, gone, tabData, storage, ioq, tasks, now, events, faults,
                   variant, closing>>

\* A click on the Analyze button runs analyzeTabs when the handler is there.
ClickAnalyze ==
    /\ popup.listeners > 0
    /\ ~popup.inInit
    /\ PopupAnalyze

NextOpen ==
    \/ InitPopup
    \/ InitPopupGet
    \/ InitPopupRegister
    \/ ClickAnalyze
    \/ PopupAnalyzeAsk
    \/ PopupFreshAsk
    \/ CoreAnswers
    \/ CoreAcks
    \/ RuntimeError
    \/ DataTimeout
    \/ AckTimeout
    \/ LateAnswer
    \/ LateAck
    \/ IoLand
    \/ \E self \in Running : LoadGet(self)
    \/ \E self \in Running : LoadQuery(self)
    \/ \E self \in Running : LoadSet(self)
    \/ \E self \in Running : BulkQuery(self)
    \/ \E self \in Running : BulkJoin(self)
    \/ \E self \in Running : BulkSet(self)
    \/ \E self \in Running : AnalyzeGet(self)
    \/ \E self \in Running : AnalyzeScript(self)
    \/ \E self \in Running : AnalyzeSet(self)

SpecOpen == Init /\ [][NextOpen]_vars

\* C36 (initPopup registers the handlers): once initPopup has returned, on the
\* path that found tab data in chrome.storage as on the path that asked the
\* core, the handlers of the Analyze button, the Close Inactive button and
\* the search input have been registered, exactly once however often
\* initPopup was called.
C36_HandlersRegistered ==
    (popup.isInitialized /\ ~popup.inInit) => popup.listeners = 1

\* C37 (the popup forgets the tabs it had closed): when the core has answered
\* the closeTabs request of closeInactiveTabs and the callback has rendered,
\* the popup's `tabData`, from which the list and the counters are drawn,
\* holds none of the ids the request listed.
C37_ClosedTabsLeavePopup ==
    [][\A k \in 1..Len(tasks') :
          (k > Len(tasks) /\ tasks'[k].kind = "closeTabs")
              => TabIdsOf(tasks'[k]) \cap DOMAIN popup'.data = {}]_vars

\* C38 (bulk analyses do not overlap): the analyzeTab calls in flight that
\* bulk operations started are never more than BATCH_SIZE, and while a bulk
\* operation (an analyzeAllTabs request or a refreshAllTabData call) has
\* calls of its batch in flight no other bulk operation is running.
C38_BulkAnalysesDoNotOverlap ==
    /\ Cardinality(UNION {InFlight(b) : b \in Running}) <= BATCH_SIZE
    /\ \A a, b \in Running :
           (a # b /\ tasks[a].pc = "bulk_wait" /\ InFlight(a) # {})
               => tasks[b].pc \notin {"bulk_query", "bulk_wait", "bulk_pause", "bulk_set"}

\* The step in which analyzeTabs sends {action: "refreshAllTabs"}: its
\* analyzeAllTabs request failed, or the fresh load after it came back empty.
SendsRefreshAllTabs ==
    /\ popup'.pc = "idle"
    /\ \/ popup.pc = "wait_ack" /\ ~popup'.resp.success
       \/ popup.pc \in {"fresh", "wait_fresh"} /\ popup'.resp.tabData = EmptyMap

\* C39 (every action the popup sends is handled): the refreshAllTabs message
\* that analyzeTabs sends after a failed or empty analysis makes the core
\* start a re-analysis of all tabs, a bulk operation that begins with its
\* chrome.tabs.query (the message is delivered: no runtime error).
C39_RefreshAllTabsHandled ==
    [][(SendsRefreshAllTabs /\ faults' = faults)
          => \E k \in 1..Len(tasks') : k > Len(tasks) /\ tasks'[k].pc = "bulk_query"]_vars
====
